---- MODULE Spec2Model ----
(***************************************************************************)
(* binarcular (typed-file-parser): decoding a byte array into a record     *)
(* following a structure definition (src/src/index.js, parseByteArray) and *)
(* encoding a record into a byte array (writer, write).                    *)
(*                                                                         *)
(* Conventions of the model:                                               *)
(*  - a Uint8Array is a sequence of 0..255; JavaScript index i is the      *)
(*    TLA+ index i + 1;                                                    *)
(*  - a type definition string such as 'INT16[2]|LE' is the sequence of    *)
(*    its lexical pieces <<"INT16", "[", "2", "]", "|LE">>;                *)
(*  - a structure definition (an object, whose keys keep insertion order)  *)
(*    is a sequence of [key, def] entries with distinct keys;              *)
(*  - a String is [str |-> <<char codes>>]; a float is kept as its IEEE    *)
(*    bit pattern, [f32 |-> int32] or [f64 |-> 8 bytes], with nan set and  *)
(*    the pattern zeroed for any NaN; a Number read from a 64-bit field is *)
(*    [int |-> 9 base-256 digits, most significant first] after rounding   *)
(*    to a double; every other Number is an integer.                       *)
(***************************************************************************)
EXTENDS Integers, Sequences, FiniteSets, TLC

\* ------------------------------------------------------------------ bounds
MaxKeys == 2
MaxLen == 10
MaxOffset == 2
MaxScanLen == 5
MaxPattern == 3

\* ------------------------------------------------------------- type registry
TYPE_NAMES ==
    { "CHAR",
      "BYTE", "INT8", "UINT8",
      "SHORT", "INT16", "UINT16",
      "INT24", "UINT24",
      "INT32", "UINT32", "LONG", "ULONG", "FLOAT", "FLOAT32",
      "INT64", "UINT64", "LONGLONG", "ULONGLONG", "DOUBLE", "FLOAT64" }

FLOATING_POINT_TYPES == { "FLOAT", "FLOAT32", "DOUBLE", "FLOAT64" }

\* a mutation: a 24-bit value counted as the 4 bytes of a padded one
ByteWidthPadded24(type) ==
    CASE type \in { "CHAR", "BYTE", "INT8", "UINT8" } -> 1
      [] type \in { "SHORT", "INT16", "UINT16" } -> 2
      [] type \in { "INT24", "UINT24", "INT32", "UINT32", "LONG", "ULONG", "FLOAT",
                    "FLOAT32" } -> 4
      [] type \in { "INT64", "UINT64", "LONGLONG", "ULONGLONG", "DOUBLE", "FLOAT64" } -> 8
      [] OTHER -> 0

\* the cases of the switch over the type, by the bytes one value takes;
\* 0 is the default case (no such type)
ByteWidth(type) ==
    CASE type \in { "CHAR", "BYTE", "INT8", "UINT8" } -> 1
      [] type \in { "SHORT", "INT16", "UINT16" } -> 2
      [] type \in { "INT24", "UINT24" } -> 3
      [] type \in { "INT32", "UINT32", "LONG", "ULONG", "FLOAT", "FLOAT32" } -> 4
      [] type \in { "INT64", "UINT64", "LONGLONG", "ULONGLONG", "DOUBLE", "FLOAT64" } -> 8
      [] OTHER -> 0

\* --------------------------------------------------------- definition grammar
Separators == { "[", "|LE", "|BE", "|" }

\* parseInt over the digit runs used in definitions
parseInt(s) ==
    CASE s = "0" -> 0 [] s = "1" -> 1 [] s = "2" -> 2 [] s = "3" -> 3
      [] s = "4" -> 4 [] s = "5" -> 5 [] s = "6" -> 6 [] s = "7" -> 7
      [] s = "8" -> 8 [] s = "9" -> 9

DigitRuns == { "0", "1", "2", "3", "4", "5", "6", "7", "8", "9" }

\* typeDefinition.split(/(\[|\|)/)[0]: what precedes the first '[' or '|'
getDataTypeFromDefinition(typeDefinition) ==
    IF typeDefinition = <<>> \/ typeDefinition[1] \in Separators
    THEN ""
    ELSE typeDefinition[1]

\* parseInt( typeDefinition.match( /(?<=\[)\d+(?=\])/ )?.[0] ?? 1 ):
\* the first digit run enclosed in brackets, 1 when there is none
getLengthFromDefinition(typeDefinition) ==
    LET hits == { i \in 2..(Len(typeDefinition) - 1) :
                    /\ typeDefinition[i] \in DigitRuns
                    /\ typeDefinition[i - 1] = "["
                    /\ typeDefinition[i + 1] = "]" }
    IN  IF hits = {}
        THEN 1
        ELSE parseInt(typeDefinition[CHOOSE i \in hits : \A j \in hits : i <= j])

\* a mutation: the length is only found when its ']' ends the definition
typesGetLengthAtEnd(typeDefinition) ==
    LET hits == { i \in 1..(Len(typeDefinition) - 1) :
                    /\ typeDefinition[i] \in DigitRuns
                    /\ typeDefinition[i + 1] = "]"
                    /\ i + 1 = Len(typeDefinition) }
    IN  IF hits = {}
        THEN 1
        ELSE parseInt(typeDefinition[CHOOSE i \in hits : \A j \in hits : i <= j])

\* definitions/types.js: parseInt( typeDefinition.match( /\d+(?=\])/ )?.[0] ?? 1 ),
\* the first digit run that a ']' follows (the pieces of a definition are
\* maximal, and no ']' directly follows a type name here)
typesGetLengthFromDefinition(typeDefinition) ==
    LET hits == { i \in 1..(Len(typeDefinition) - 1) :
                    /\ typeDefinition[i] \in DigitRuns
                    /\ typeDefinition[i + 1] = "]" }
    IN  IF hits = {}
        THEN 1
        ELSE parseInt(typeDefinition[CHOOSE i \in hits : \A j \in hits : i <= j])

includes(typeDefinition, piece) ==
    \E i \in 1..Len(typeDefinition) : typeDefinition[i] = piece

\* isLittleEndian(): the environment's byte order, computed once and kept in
\* _isLittleEndian. Gives the value and the new content of the cache.
isLittleEndian(cache, host) ==
    IF cache = "undefined"
    THEN [value |-> host, cache |-> IF host THEN "true" ELSE "false"]
    ELSE [value |-> (cache = "true"), cache |-> cache]

isDefinitionForLittleEndian(typeDefinition, cache, host) ==
    IF includes(typeDefinition, "|BE")
    THEN [value |-> FALSE, cache |-> cache]
    ELSE IF includes(typeDefinition, "|LE")
         THEN [value |-> TRUE, cache |-> cache]
         ELSE isLittleEndian(cache, host)

\* -------------------------------------------------------- structure size
\* getSizeForStructure: the sum of length * width over the fields; throws on
\* the first field (in declaration order) whose type is not supported
RECURSIVE SizeOfFields(_, _)
SizeOfFields(structureDefinition, n) ==
    IF n = 0
    THEN 0
    ELSE SizeOfFields(structureDefinition, n - 1)
         + getLengthFromDefinition(structureDefinition[n].def)
           * ByteWidth(getDataTypeFromDefinition(structureDefinition[n].def))

Unsupported(structureDefinition) ==
    { k \in 1..Len(structureDefinition) :
        getDataTypeFromDefinition(structureDefinition[k].def) \notin TYPE_NAMES }

getSizeForStructure(structureDefinition) ==
    IF Unsupported(structureDefinition) # {}
    THEN [thrown |-> TRUE, size |-> 0]
    ELSE [thrown |-> FALSE,
          size |-> SizeOfFields(structureDefinition, Len(structureDefinition))]

\* getSizeForStructure of definitions/types.js
RECURSIVE typesSizeOfFields(_, _)
typesSizeOfFields(structureDefinition, n) ==
    IF n = 0
    THEN 0
    ELSE typesSizeOfFields(structureDefinition, n - 1)
         + typesGetLengthFromDefinition(structureDefinition[n].def)
           * ByteWidth(getDataTypeFromDefinition(structureDefinition[n].def))

\* a mutation: a type that is not supported adds nothing and does not throw
typesGetSizeWithoutThrow(structureDefinition) ==
    [thrown |-> FALSE,
     size |-> typesSizeOfFields(structureDefinition, Len(structureDefinition))]

\* getSizeForStructure( structureDefinition ): throws on a type not supported
typesGetSizeForStructure(structureDefinition) ==
    IF Unsupported(structureDefinition) # {}
    THEN [thrown |-> TRUE, size |-> 0]
    ELSE [thrown |-> FALSE,
          size |-> typesSizeOfFields(structureDefinition, Len(structureDefinition))]

\* ------------------------------------------------------------ number values
\* byteArray[ i ] as an operand of << and |: a read past the end is undefined,
\* which these operators take as 0
ByteAt(byteArray, i) ==
    IF i >= 0 /\ i < Len(byteArray) THEN byteArray[i + 1] ELSE 0

\* byteArray.slice( from, to ): clamped to the array
slice(byteArray, from, to) ==
    SubSeq(byteArray, from + 1, IF to < Len(byteArray) THEN to ELSE Len(byteArray))

\* a mutation: the two bytes are combined big endian whatever the byte order
Combine16IgnoringOrder(byteArray, it, littleEndian) ==
    ByteAt(byteArray, it) * 256 + ByteAt(byteArray, it + 1)

\* (b[hi] << 8) | b[lo]
Combine16(byteArray, it, littleEndian) ==
    IF littleEndian
    THEN ByteAt(byteArray, it + 1) * 256 + ByteAt(byteArray, it)
    ELSE ByteAt(byteArray, it) * 256 + ByteAt(byteArray, it + 1)

\* a mutation: little endian with the two low bytes in each other's place
Combine24LowBytesSwapped(byteArray, it, littleEndian) ==
    IF littleEndian
    THEN ByteAt(byteArray, it + 2) * 65536 + ByteAt(byteArray, it) * 256
         + ByteAt(byteArray, it + 1)
    ELSE ByteAt(byteArray, it) * 65536 + ByteAt(byteArray, it + 1) * 256
         + ByteAt(byteArray, it + 2)

Combine24(byteArray, it, littleEndian) ==
    IF littleEndian
    THEN ByteAt(byteArray, it + 2) * 65536 + ByteAt(byteArray, it + 1) * 256
         + ByteAt(byteArray, it)
    ELSE ByteAt(byteArray, it) * 65536 + ByteAt(byteArray, it + 1) * 256
         + ByteAt(byteArray, it + 2)

\* the result of << 24 and | is a signed 32-bit integer
Int32Of(b3, b2, b1, b0) ==
    (IF b3 >= 128 THEN b3 - 256 ELSE b3) * 16777216 + b2 * 65536 + b1 * 256 + b0

Combine32(byteArray, it, littleEndian) ==
    IF littleEndian
    THEN Int32Of(ByteAt(byteArray, it + 3), ByteAt(byteArray, it + 2),
                 ByteAt(byteArray, it + 1), ByteAt(byteArray, it))
    ELSE Int32Of(ByteAt(byteArray, it), ByteAt(byteArray, it + 1),
                 ByteAt(byteArray, it + 2), ByteAt(byteArray, it + 3))

\* dataView.setInt32( 0, value ); dataView.getFloat32(): the float whose bit
\* pattern is value; every NaN pattern reads as the one NaN
Float32FromBits(value) ==
    LET low31 == IF value < 0 THEN value + 1073741824 + 1073741824 ELSE value
    IN  IF low31 \div 8388608 = 255 /\ low31 % 8388608 # 0
        THEN [f32 |-> 0, nan |-> TRUE]
        ELSE [f32 |-> value, nan |-> FALSE]

\* floor(log2 n) of a byte n > 0
Log2(n) ==
    CASE n >= 128 -> 7 [] n >= 64 -> 6 [] n >= 32 -> 5 [] n >= 16 -> 4
      [] n >= 8 -> 3 [] n >= 4 -> 2 [] n >= 2 -> 1 [] OTHER -> 0

Pow2(k) ==
    CASE k = 0 -> 1 [] k = 1 -> 2 [] k = 2 -> 4 [] k = 3 -> 8 [] k = 4 -> 16
      [] k = 5 -> 32 [] k = 6 -> 64 [] k = 7 -> 128 [] k = 8 -> 256
      [] k = 9 -> 512 [] k = 10 -> 1024 [] k = 11 -> 2048

\* digits (most significant first) plus one
RECURSIVE Increment(_)
Increment(digits) ==
    IF digits = <<>>
    THEN <<>>
    ELSE IF digits[Len(digits)] < 255
         THEN [digits EXCEPT ![Len(digits)] = @ + 1]
         ELSE Append(Increment(SubSeq(digits, 1, Len(digits) - 1)), 0)

\* The Number (a double) nearest to the 64-bit unsigned integer with the 8
\* base-256 digits d, most significant first: exact below 2^53, rounded to 53
\* significant bits (ties to even) above. 9 digits, as rounding can give 2^64.
ToDouble(d) ==
    IF d[1] = 0 /\ d[2] < 32
    THEN <<0>> \o d
    ELSE LET top    == IF d[1] # 0 THEN 56 + Log2(d[1]) ELSE 48 + Log2(d[2])
             k      == top - 52
             low16  == d[7] * 256 + d[8]
             q      == low16 \div Pow2(k)
             r      == low16 % Pow2(k)
             up     == r > Pow2(k - 1) \/ (r = Pow2(k - 1) /\ q % 2 = 1)
             newlow == (q + (IF up THEN 1 ELSE 0)) * Pow2(k)
             high   == <<0>> \o SubSeq(d, 1, 6)
         IN  IF newlow = 65536
             THEN Increment(high) \o <<0, 0>>
             ELSE high \o <<newlow \div 256, newlow % 256>>

\* dataView.setBigInt64( 0, BigInt( value )); dataView.getFloat64(): the
\* double whose bit pattern is value modulo 2^64
Float64FromBits(digits9) ==
    LET bits == SubSeq(digits9, 2, 9)
    IN  IF /\ bits[1] % 128 = 127
           /\ bits[2] >= 240
           /\ (bits[2] % 16 # 0 \/ \E i \in 3..8 : bits[i] # 0)
        THEN [f64 |-> <<0, 0, 0, 0, 0, 0, 0, 0>>, nan |-> TRUE]
        ELSE [f64 |-> bits, nan |-> FALSE]

\* getUint32( 0, le ) + 2 ** 32 * getUint32( 4, le ) over the 8 bytes at it,
\* as base-256 digits, most significant first
Combine64(byteArray, it, le) ==
    IF le
    THEN << byteArray[it + 8], byteArray[it + 7], byteArray[it + 6], byteArray[it + 5],
            byteArray[it + 4], byteArray[it + 3], byteArray[it + 2], byteArray[it + 1] >>
    ELSE << byteArray[it + 5], byteArray[it + 6], byteArray[it + 7], byteArray[it + 8],
            byteArray[it + 1], byteArray[it + 2], byteArray[it + 3], byteArray[it + 4] >>

\* -------------------------------------------------------------- decoding
\* a mutation: the loop steps by one byte instead of by the width of a value
CombinePositionByOne(offset, amount, n) == offset + (n - 1)

\* combineBytes( offset, length, amount, fn ): fn over the length positions
\* offset, offset + amount, ...; a list when length > 1, else the one value
\* (0 when the loop never runs). values[n] is fn at position(n).
CombinePosition(offset, amount, n) == offset + (n - 1) * amount

combineBytes(length, values) ==
    IF length > 1
    THEN values
    ELSE IF length = 1 THEN values[1] ELSE 0

\* a mutation: the cursor advances by the number of values, whatever their width
AdvanceOffsetByLength(offset, length, width) == offset + length

\* out.offset += length * width, in every case of the switch
AdvanceOffset(offset, length, width) == offset + length * width

Undefined == [value |-> 0, defined |-> FALSE]
Defined(v) == [value |-> v, defined |-> TRUE]

\* the guard of getDataForType and of writeDataForType: the last of `length`
\* positions from offset lies past the end of the array
OutOfRange(offset, length, byteArray) ==
    offset + (length - 1) >= Len(byteArray)

\* the 64-bit case reads each value through a DataView over
\* byteArray.slice( it, it + 8 ); getUint32 throws a RangeError when that
\* slice is shorter than the 8 bytes read
Throws64(byteArray, offset, length) ==
    \E n \in 1..length : offset + (n - 1) * 8 + 8 > Len(byteArray)

\* getDataForType( typeDefinition, byteArray, offset ), with the module's
\* _isLittleEndian as cache: [value, defined, offset, thrown, cache]
getDataForType(typeDefinition, byteArray, offset, cache, host) ==
    LET type   == getDataTypeFromDefinition(typeDefinition)
        length == getLengthFromDefinition(typeDefinition)
        le     == isDefinitionForLittleEndian(typeDefinition, cache, host)
        littleEndian == le.value
        isFloat == type \in FLOATING_POINT_TYPES
        width  == ByteWidth(type)
        Read16(it) == Combine16(byteArray, it, littleEndian)
        Read24(it) == Combine24(byteArray, it, littleEndian)
        Read32(it) == IF isFloat
                      THEN Float32FromBits(Combine32(byteArray, it, littleEndian))
                      ELSE Combine32(byteArray, it, littleEndian)
        \* the DataView reads with the raw _isLittleEndian, undefined read as false
        Read64(it) == LET value == ToDouble(Combine64(byteArray, it, le.cache = "true"))
                      IN  IF isFloat THEN Float64FromBits(value) ELSE [int |-> value]
        Read(amount, it) == CASE amount = 2 -> Read16(it) [] amount = 3 -> Read24(it)
                              [] amount = 4 -> Read32(it) [] amount = 8 -> Read64(it)
        Each(amount) ==
            [n \in 1..length |-> Read(amount, CombinePosition(offset, amount, n))]
        out(v, thrown) ==
            [value |-> v.value, defined |-> v.defined,
             offset |-> IF v.defined THEN AdvanceOffset(offset, length, width) ELSE offset,
             thrown |-> thrown, cache |-> le.cache]
    IN  IF OutOfRange(offset, length, byteArray)
        THEN [value |-> 0, defined |-> FALSE, offset |-> offset,
              thrown |-> FALSE, cache |-> cache]
        ELSE CASE width = 0 -> out(Undefined, FALSE)
               [] width = 1 /\ type = "CHAR" ->
                    out(Defined([str |-> slice(byteArray, offset, offset + length)]), FALSE)
               [] width = 1 /\ type # "CHAR" ->
                    out(Defined(IF length = 1
                                THEN byteArray[offset + 1]
                                ELSE slice(byteArray, offset, offset + length)), FALSE)
               [] width = 2 -> out(Defined(combineBytes(length, Each(2))), FALSE)
               [] width = 3 -> out(Defined(combineBytes(length, Each(3))), FALSE)
               [] width = 4 -> out(Defined(combineBytes(length, Each(4))), FALSE)
               [] width = 8 ->
                    IF Throws64(byteArray, offset, length)
                    THEN out(Undefined, TRUE)
                    ELSE out(Defined(combineBytes(length, Each(8))), FALSE)

EmptyData == <<>>

\* a mutation: the size is compared without the offset the call started from
CompletenessErrorNoOffset(end, offset, size) == end # size

\* out.error = out.end !== offset + getSizeForStructure( structureDefinition )
CompletenessError(end, offset, size) == end # offset + size

\* the loop of parseByteArray from cursor st.i and field st.keyIndex (0-based),
\* and what follows it
RECURSIVE ParseFrom(_, _, _, _, _)
ParseFrom(byteArray, structureDefinition, offset, host, st) ==
    IF st.i < Len(byteArray) /\ st.keyIndex < Len(structureDefinition)
    THEN LET key            == structureDefinition[st.keyIndex + 1].key
             typeDefinition == structureDefinition[st.keyIndex + 1].def
             result == getDataForType(typeDefinition, byteArray, st.i, st.cache, host)
         IN  IF result.thrown
             THEN [status |-> "thrown", message |-> "RangeError", data |-> st.data,
                   end |-> offset, error |-> FALSE, cache |-> result.cache]
             ELSE IF ~result.defined
                  THEN [status |-> "returned", message |-> "", data |-> st.data,
                        end |-> offset, error |-> TRUE, cache |-> result.cache]
                  ELSE ParseFrom(byteArray, structureDefinition, offset, host,
                                 [i |-> result.offset, keyIndex |-> st.keyIndex + 1,
                                  data |-> st.data @@ (key :> result.value),
                                  cache |-> result.cache])
    ELSE LET size == getSizeForStructure(structureDefinition)
         IN  IF size.thrown
             THEN [status |-> "thrown", message |-> "Unsupported data type",
                   data |-> st.data, end |-> st.i, error |-> FALSE, cache |-> st.cache]
             ELSE [status |-> "returned", message |-> "", data |-> st.data,
                   end |-> st.i, error |-> CompletenessError(st.i, offset, size.size),
                   cache |-> st.cache]

\* parseByteArray( byteArray, structureDefinition, offset )
parseByteArray(byteArray, structureDefinition, offset, cache, host) ==
    ParseFrom(byteArray, structureDefinition, offset, host,
              [i |-> IF offset > 0 THEN offset ELSE 0, keyIndex |-> 0,
               data |-> EmptyData, cache |-> cache])

\* -------------------------------------------------------------- encoding
unsignedTypes == { "UINT8", "UINT16", "UINT24", "UINT32", "ULONG", "UINT64", "ULONGLONG" }

sixtyFourBitTypes == { "INT64", "UINT64", "LONGLONG", "ULONGLONG", "DOUBLE", "FLOAT64" }

Reverse(s) == [i \in 1..Len(s) |-> s[Len(s) + 1 - i]]

\* ( v >> 8k ) & 0xff for k = width - 1 .. 0: the bytes of the integer v, most
\* significant first (two's complement for a negative v)
RECURSIVE IntBytes(_, _)
IntBytes(v, width) ==
    IF width = 0
    THEN <<>>
    ELSE Append(IntBytes(v \div 256, width - 1), v % 256)

\* the bit pattern setFloat32 / setFloat64 store, most significant byte first;
\* NaN is stored as the quiet NaN
Float32Bytes(v) == IF v.nan THEN <<127, 192, 0, 0>> ELSE IntBytes(v.f32, 4)

Float64Bytes(v) == IF v.nan THEN <<127, 248, 0, 0, 0, 0, 0, 0>> ELSE v.f64

\* setBigUint64 / setBigInt64 of BigInt( v ): v modulo 2^64
BigInt64Bytes(v) == SubSeq(v.int, 2, 9)

\* a mutation: a negative integer is stored as 0 instead of wrapping
ValueBytesNegativeAsZero(type, valueToWrite, littleEndian) ==
    LET width == ByteWidth(type)
        big   == CASE type \in FLOATING_POINT_TYPES /\ width = 4 -> Float32Bytes(valueToWrite)
                   [] type \in FLOATING_POINT_TYPES /\ width = 8 -> Float64Bytes(valueToWrite)
                   [] type \notin FLOATING_POINT_TYPES /\ width = 8 -> BigInt64Bytes(valueToWrite)
                   [] OTHER -> IntBytes(IF valueToWrite < 0 THEN 0 ELSE valueToWrite, width)
    IN  IF littleEndian THEN Reverse(big) ELSE big

\* the bytes one value of the type takes in the array, in array order
ValueBytes(type, valueToWrite, littleEndian) ==
    LET width == ByteWidth(type)
        big   == CASE type \in FLOATING_POINT_TYPES /\ width = 4 -> Float32Bytes(valueToWrite)
                   [] type \in FLOATING_POINT_TYPES /\ width = 8 -> Float64Bytes(valueToWrite)
                   [] type \notin FLOATING_POINT_TYPES /\ width = 8 -> BigInt64Bytes(valueToWrite)
                   [] OTHER -> IntBytes(valueToWrite, width)
    IN  IF littleEndian THEN Reverse(big) ELSE big

\* value.charCodeAt( i ) as stored in a Uint8Array: NaN past the end of the
\* string is stored as 0
charCodeAt(value, i) == IF i < Len(value.str) THEN value.str[i + 1] ELSE 0

\* length === 1 ? value : value[ i ]
ValueToWrite(type, value, length, i) ==
    IF type = "CHAR"
    THEN charCodeAt(value, i)
    ELSE IF length = 1 THEN value ELSE value[i + 1]

\* a mutation: the values of a list are written one byte apart
WritePositionNoSize(writeOffset, i, size) == writeOffset + i

\* writeMultiple( writeOffset, length, size, fn ): where value i is written
WritePosition(writeOffset, i, size) == writeOffset + (i * size)

\* a mutation: the bytes are stored one index before the write position
PutBytesOneEarlier(byteArray, w, bytes) ==
    [j \in 1..Len(byteArray) |->
        IF j >= w /\ j < w + Len(bytes) THEN bytes[j - w + 1] ELSE byteArray[j]]

\* an assignment byteArray[ j ] = b past the end of a Uint8Array is ignored
PutBytes(byteArray, w, bytes) ==
    [j \in 1..Len(byteArray) |->
        IF j - 1 >= w /\ j - 1 < w + Len(bytes) THEN bytes[j - w] ELSE byteArray[j]]

\* the types written through new DataView( byteArray.buffer ), whose setters
\* throw a RangeError when the value does not fit in the buffer
UsesDataView(type) ==
    type \in FLOATING_POINT_TYPES \/ type \in sixtyFourBitTypes

RECURSIVE WriteValues(_, _, _, _, _, _, _)
WriteValues(byteArray, type, value, length, littleEndian, writeOffset, i) ==
    IF i >= length
    THEN [byteArray |-> byteArray, thrown |-> FALSE]
    ELSE LET size == ByteWidth(type)
             w    == WritePosition(writeOffset, i, size)
         IN  IF UsesDataView(type) /\ w + size > Len(byteArray)
             THEN [byteArray |-> byteArray, thrown |-> TRUE]
             ELSE WriteValues(
                      PutBytes(byteArray, w,
                               ValueBytes(type, ValueToWrite(type, value, length, i),
                                          littleEndian)),
                      type, value, length, littleEndian, writeOffset, i + 1)

\* writeDataForType( typeDefinition, value, byteArray, offset ): the array as
\* written, the offset at which writing has ended (0 when the guard refuses),
\* whether a RangeError was thrown, and the cache of types.js
writeDataForType(typeDefinition, value, byteArray, offset, tcache, host) ==
    LET type   == getDataTypeFromDefinition(typeDefinition)
        length == typesGetLengthFromDefinition(typeDefinition)
        le     == isDefinitionForLittleEndian(typeDefinition, tcache, host)
        w      == WriteValues(byteArray, type, value, length, le.value, offset, 0)
    IN  IF OutOfRange(offset, length, byteArray)
        THEN [byteArray |-> byteArray, offset |-> 0, thrown |-> FALSE, cache |-> tcache]
        ELSE IF ByteWidth(type) = 0
             THEN [byteArray |-> byteArray, offset |-> offset, thrown |-> FALSE,
                   cache |-> le.cache]
             ELSE [byteArray |-> w.byteArray,
                   offset |-> offset + length * ByteWidth(type),
                   thrown |-> w.thrown, cache |-> le.cache]

\* a mutation: the total leaves out the offset writing starts from
WriteTotalNoOffset(optWriteOffset, size) == size

\* optWriteOffset + getSizeForStructure( structureDefinition )
WriteTotal(optWriteOffset, size) == optWriteOffset + size

\* the loop of write from cursor st.i and field st.keyIndex, and what follows
RECURSIVE WriteFrom(_, _, _, _, _, _)
WriteFrom(structureDefinition, data, optWriteOffset, total, host, st) ==
    IF st.i < total /\ st.keyIndex < Len(structureDefinition)
    THEN LET key            == structureDefinition[st.keyIndex + 1].key
             typeDefinition == structureDefinition[st.keyIndex + 1].def
             r == writeDataForType(typeDefinition, data[key], st.byteArray, st.i,
                                   st.cache, host)
         IN  IF r.thrown
             THEN [status |-> "thrown", message |-> "RangeError", end |-> optWriteOffset,
                   error |-> FALSE, byteArray |-> r.byteArray, cache |-> r.cache]
             ELSE IF r.offset = 0
                  THEN [status |-> "returned", message |-> "", end |-> optWriteOffset,
                        error |-> TRUE, byteArray |-> r.byteArray, cache |-> r.cache]
                  ELSE WriteFrom(structureDefinition, data, optWriteOffset, total, host,
                                 [i |-> r.offset, keyIndex |-> st.keyIndex + 1,
                                  byteArray |-> r.byteArray, cache |-> r.cache])
    ELSE [status |-> "returned", message |-> "", end |-> st.i,
          error |-> (st.i # total), byteArray |-> st.byteArray, cache |-> st.cache]

\* write( byteArray, structureDefinition, dataToWrite, optWriteOffset )
write(bytes, definition, data, optWriteOffset, tcache, host) ==
    LET size == typesGetSizeForStructure(definition)
    IN  IF size.thrown
        THEN [status |-> "thrown", message |-> "Unsupported data type",
              end |-> optWriteOffset, error |-> FALSE, byteArray |-> bytes,
              cache |-> tcache]
        ELSE WriteFrom(definition, data, optWriteOffset,
                       WriteTotal(optWriteOffset, size.size), host,
                       [i |-> IF optWriteOffset > 0 THEN optWriteOffset ELSE 0,
                        keyIndex |-> 0, byteArray |-> bytes, cache |-> tcache])

\* ---------------------------------------------------------------- scanning
\* new Uint8Array( string.split( '' ).map( c => c.charCodeAt( 0 ))): a string
\* is searched by the low 8 bits of its character codes
PatternBytes(pattern) ==
    IF pattern.text
    THEN [i \in 1..Len(pattern.codes) |-> pattern.codes[i] % 256]
    ELSE pattern.codes

\* array[ i ]: undefined outside the array
ElementAt(array, i) ==
    IF i >= 0 /\ i < Len(array) THEN Defined(array[i + 1]) ELSE Undefined

\* byteArray.slice( i, i + searchLength ): cut at the end of the array (the
\* loop has a negative i only below an empty pattern, where it is empty)
Block(byteArray, i, searchLength) ==
    IF i < 0 THEN << >> ELSE slice(byteArray, i, i + searchLength)

\* the two tests of the loop body at index i
MatchesAt(byteArray, bytes, i) ==
    /\ ElementAt(byteArray, i) = ElementAt(bytes, 0)
    /\ LET block == Block(byteArray, i, Len(bytes))
       IN  \A index \in 1..Len(block) : block[index] = bytes[index]

\* a mutation: the loop goes on to the last index that matches
LastIndex(indices) == CHOOSE i \in indices : \A j \in indices : i >= j

\* the loop returns at the first index that matches
FirstIndex(indices) == CHOOSE i \in indices : \A j \in indices : i <= j

Infinity == [infinity |-> TRUE, index |-> 0]

\* scanUntil( byteArray, stringOrByteArray, offset )
scanUntil(byteArray, pattern, offset) ==
    LET bytes   == PatternBytes(pattern)
        total   == Len(byteArray)
        indices == { i \in offset..(total - 1) : MatchesAt(byteArray, bytes, i) }
    IN  IF indices = {}
        THEN Infinity
        ELSE [infinity |-> FALSE, index |-> FirstIndex(indices)]

\* ------------------------------------------------------------------ state
VARIABLES
    host,                \* whether the environment is little endian
    cache,               \* _isLittleEndian of src/index.js: "undefined", "true", "false"
    typesCache,          \* _isLittleEndian of definitions/types.js
    byteArray,           \* the Uint8Array handed to the call
    structureDefinition, \* the structure definition handed to the call
    offset,              \* the offset handed to the call
    dataToWrite,         \* the record handed to write
    stringOrByteArray,   \* what scanUntil is to find
    out,                 \* what the call gave: status "none" before it has run
    owned,               \* main context: the Uint8Arrays it holds, by name
    inbox,               \* messages posted to the worker, not yet handled
    held,                \* worker: the Uint8Arrays left with it
    outbox,              \* messages posted by the worker, not yet delivered
    use64bit,            \* the use64bit handed to isSupported
    scope                \* the scope handed to isSupported: typeof of each property

callVars == << host, cache, typesCache, byteArray, structureDefinition, offset,
               dataToWrite, out >>

workerVars == << owned, inbox, held, outbox >>

supportVars == << use64bit, scope >>

vars == << callVars, stringOrByteArray, workerVars, supportVars >>

\* ----------------------------------------------------------------- inputs
KeyNames == << "a", "b", "c", "d" >>

\* type definitions the calls are given: every width of the switch, with and
\* without a length and a byte order, and a type that does not exist
TypeDefinitions ==
    { << "CHAR" >>,
      << "CHAR", "[", "3", "]" >>,
      << "UINT8", "[", "2", "]" >>,
      << "INT16" >>,
      << "UINT16", "|BE", "[", "2", "]" >>,
      << "INT24", "|LE" >>,
      << "INT32" >>,
      << "FLOAT", "[", "2", "]", "|BE" >>,
      << "INT64" >>,
      << "DOUBLE", "|LE" >>,
      << "NONEXISTENT" >> }

\* the definitions handed to write: as above, less two of the one-value fields
WriteTypeDefinitions == TypeDefinitions \ { << "CHAR" >>, << "INT16" >> }

StructuresOf(definitions) ==
    UNION { { [k \in 1..n |-> [key |-> KeyNames[k], def |-> defs[k]]] :
                defs \in [1..n -> definitions] } : n \in 0..MaxKeys }

Structures == StructuresOf(TypeDefinitions)

\* the content of the arrays: a different byte at every index
SampleByte(i) == (240 + 37 * i) % 256

Buffers == { [i \in 1..n |-> SampleByte(i - 1)] : n \in 0..MaxLen }

Offsets == -1..MaxOffset

\* the record handed to write: a value of the field's type and length for
\* every field, different from field to field and from entry to entry
SampleNumber(k, n) == 1 + 41 * k + 13 * n

SampleValue(type, k, n) ==
    LET x == SampleNumber(k, n)
    IN  CASE ByteWidth(type) = 1 -> (x * 3) % 256
          [] ByteWidth(type) = 2 -> (x * 251) % 65536
          [] ByteWidth(type) = 3 -> (x * 65003) % 16777216
          [] ByteWidth(type) = 4 /\ type \notin FLOATING_POINT_TYPES ->
                IF k % 2 = 0 THEN 0 - x * 70001 ELSE x * 70001
          [] ByteWidth(type) = 4 /\ type \in FLOATING_POINT_TYPES ->
                [f32 |-> 1065353216 + x * 4099, nan |-> FALSE]
          [] ByteWidth(type) = 8 /\ type \notin FLOATING_POINT_TYPES ->
                [int |-> << 0, 0, k, x, 1, 2, 3, 4, 255 - x >>]
          [] ByteWidth(type) = 8 /\ type \in FLOATING_POINT_TYPES ->
                [f64 |-> << 63, 240 + k, 0, x, 7, 0, 0, 255 - x >>, nan |-> FALSE]
          [] OTHER -> 0

SampleField(typeDefinition, k) ==
    LET type   == getDataTypeFromDefinition(typeDefinition)
        length == typesGetLengthFromDefinition(typeDefinition)
    IN  IF type = "CHAR"
        THEN [str |-> [n \in 1..length |-> 97 + (SampleNumber(k, n) % 26)]]
        ELSE IF length = 1
             THEN SampleValue(type, k, 0)
             ELSE [n \in 1..length |-> SampleValue(type, k, n - 1)]

RECURSIVE SampleRecord(_, _)
SampleRecord(definition, n) ==
    IF n = 0
    THEN EmptyData
    ELSE SampleRecord(definition, n - 1)
         @@ (definition[n].key :> SampleField(definition[n].def, n))

\* nothing to find, and no worker in use
NoPattern == [text |-> FALSE, codes |-> << >>]

NoWorker ==
    /\ owned = << >>
    /\ inbox = << >>
    /\ held = {}
    /\ outbox = << >>

\* isSupported is not called: an empty scope
NoScope ==
    /\ use64bit = FALSE
    /\ scope = << >>

NoResult ==
    [status |-> "none", message |-> "", data |-> EmptyData, end |-> 0, error |-> FALSE]

Result(r) ==
    [status |-> r.status, message |-> r.message, data |-> r.data, end |-> r.end,
     error |-> r.error]

\* the result of a second call, with the result of the call before it
ResultAfter(r, first) ==
    [status |-> r.status, message |-> r.message, data |-> r.data, end |-> r.end,
     error |-> r.error, first |-> first]

Init ==
    /\ host \in BOOLEAN
    /\ cache = "undefined"
    /\ typesCache = "undefined"
    /\ byteArray \in Buffers
    /\ structureDefinition \in Structures
    /\ offset \in Offsets
    /\ dataToWrite = EmptyData
    /\ out = NoResult
    /\ stringOrByteArray = NoPattern
    /\ NoWorker
    /\ NoScope

\* ---------------------------------------------------------------- actions
\* An earlier call has asked for the environment's byte order: isLittleEndian()
\* has filled _isLittleEndian
IsLittleEndian ==
    /\ out.status = "none"
    /\ cache = "undefined"
    /\ cache' = isLittleEndian(cache, host).cache
    /\ UNCHANGED << host, typesCache, byteArray, structureDefinition, offset,
                    dataToWrite, out >>
    /\ UNCHANGED << stringOrByteArray, workerVars, supportVars >>

\* parseByteArray( byteArray, structureDefinition, offset )
ParseByteArray ==
    /\ out.status = "none"
    /\ LET r == parseByteArray(byteArray, structureDefinition, offset, cache, host)
       IN  /\ out' = Result(r)
           /\ cache' = r.cache
    /\ UNCHANGED << host, typesCache, byteArray, structureDefinition, offset,
                    dataToWrite >>
    /\ UNCHANGED << stringOrByteArray, workerVars, supportVars >>

Next ==
    \/ IsLittleEndian
    \/ ParseByteArray

Spec == Init /\ [][Next]_vars

\* ---------------------------------------------------- the writer's machine
InitWrite ==
    /\ host \in BOOLEAN
    /\ cache = "undefined"
    /\ typesCache = "undefined"
    /\ byteArray \in Buffers
    /\ structureDefinition \in StructuresOf(WriteTypeDefinitions)
    /\ offset \in Offsets
    /\ dataToWrite = SampleRecord(structureDefinition, Len(structureDefinition))
    /\ out = NoResult
    /\ stringOrByteArray = NoPattern
    /\ NoWorker
    /\ NoScope

\* write( byteArray, structureDefinition, dataToWrite, offset ): the array is
\* written in place, and out.byteArray is that same array
Write ==
    /\ out.status = "none"
    /\ LET r == write(byteArray, structureDefinition, dataToWrite, offset,
                      typesCache, host)
       IN  /\ out' = [status |-> r.status, message |-> r.message, data |-> EmptyData,
                      end |-> r.end, error |-> r.error]
           /\ byteArray' = r.byteArray
           /\ typesCache' = r.cache
    /\ UNCHANGED << host, cache, structureDefinition, offset, dataToWrite >>
    /\ UNCHANGED << stringOrByteArray, workerVars, supportVars >>

NextWrite == Write

SpecWrite == InitWrite /\ [][NextWrite]_vars

\* ------------------------------------------- decode, then encode the record
\* definitions over the character type and the 8, 16, 24 and 32-bit integer
\* types, with and without a length, in the host's and in either byte order
IntegerTypeDefinitions ==
    { << "CHAR" >>,
      << "CHAR", "[", "3", "]" >>,
      << "INT8" >>,
      << "UINT8", "[", "2", "]" >>,
      << "INT16" >>,
      << "UINT16", "|BE", "[", "2", "]" >>,
      << "INT24", "|LE" >>,
      << "UINT24", "[", "2", "]", "|BE" >>,
      << "INT32" >>,
      << "UINT32", "|LE", "[", "2", "]" >> }

\* new Uint8Array( n )
ZeroBuffer(n) == [i \in 1..n |-> 0]

\* out after a second call: the second call's result, the first call's kept
HasFirst == "first" \in DOMAIN out

InitBytes ==
    /\ host \in BOOLEAN
    /\ cache = "undefined"
    /\ typesCache = "undefined"
    /\ byteArray \in Buffers
    /\ structureDefinition \in StructuresOf(IntegerTypeDefinitions)
    /\ offset \in 0..MaxOffset
    /\ dataToWrite = EmptyData
    /\ out = NoResult
    /\ stringOrByteArray = NoPattern
    /\ NoWorker
    /\ NoScope

\* write( new Uint8Array( byteArray.length ), structureDefinition, data, offset )
\* with the data of a parseByteArray that gave every field
WriteParsed ==
    /\ out.status = "returned"
    /\ ~HasFirst
    /\ DOMAIN out.data = { structureDefinition[k].key : k \in 1..Len(structureDefinition) }
    /\ LET r == write(ZeroBuffer(Len(byteArray)), structureDefinition, out.data, offset,
                      typesCache, host)
       IN  /\ out' = [status |-> r.status, message |-> r.message, data |-> EmptyData,
                      end |-> r.end, error |-> r.error, byteArray |-> r.byteArray,
                      first |-> out]
           /\ typesCache' = r.cache
    /\ dataToWrite' = out.data
    /\ UNCHANGED << host, cache, byteArray, structureDefinition, offset >>
    /\ UNCHANGED << stringOrByteArray, workerVars, supportVars >>

NextBytes ==
    \/ ParseByteArray
    \/ WriteParsed

SpecBytes == InitBytes /\ [][NextBytes]_vars

\* ------------------------------------------- encode, then decode the buffer
\* a value in the range of the type: for a signed type a negative one or a
\* positive one, for an unsigned type one with the top bit set or a small one
\* (for the 32-bit unsigned types the largest value below 2^31)
ValueInRange(type, high) ==
    CASE type = "INT8" -> IF high THEN 0 - 1 ELSE 100
      [] type \in { "BYTE", "UINT8" } -> IF high THEN 255 ELSE 7
      [] type \in { "SHORT", "INT16" } -> IF high THEN 0 - 2 ELSE 300
      [] type = "UINT16" -> IF high THEN 65535 ELSE 513
      [] type = "INT24" -> IF high THEN 0 - 8388608 ELSE 70000
      [] type = "UINT24" -> IF high THEN 16777215 ELSE 66051
      [] type \in { "INT32", "LONG" } -> IF high THEN 0 - 2147483647 ELSE 16909060
      [] type \in { "UINT32", "ULONG" } -> IF high THEN 2147483647 ELSE 67305985

\* a value for a field: a text of the field's length, a number, or a list of
\* numbers (the first as chosen, the others small)
FieldInRange(typeDefinition, high) ==
    LET type   == getDataTypeFromDefinition(typeDefinition)
        length == typesGetLengthFromDefinition(typeDefinition)
    IN  IF type = "CHAR"
        THEN [str |-> [n \in 1..length |-> IF high THEN 101 + n ELSE 64 + n]]
        ELSE IF length = 1
             THEN ValueInRange(type, high)
             ELSE [n \in 1..length |-> ValueInRange(type, high /\ n = 1)]

RECURSIVE RecordInRange(_, _, _)
RecordInRange(definition, high, n) ==
    IF n = 0
    THEN EmptyData
    ELSE RecordInRange(definition, high, n - 1)
         @@ (definition[n].key :> FieldInRange(definition[n].def, high[n]))

InitRecord ==
    /\ host \in BOOLEAN
    /\ cache = "undefined"
    /\ typesCache = "undefined"
    /\ \E n \in 0..MaxLen : byteArray = ZeroBuffer(n)
    /\ structureDefinition \in StructuresOf(IntegerTypeDefinitions)
    /\ offset = 0
    /\ \E high \in [1..Len(structureDefinition) -> BOOLEAN] :
          dataToWrite = RecordInRange(structureDefinition, high, Len(structureDefinition))
    /\ out = NoResult
    /\ stringOrByteArray = NoPattern
    /\ NoWorker
    /\ NoScope

\* parseByteArray( result.byteArray, structureDefinition ) with the result of
\* a write
ParseWritten ==
    /\ out.status = "returned"
    /\ ~HasFirst
    /\ LET r == parseByteArray(byteArray, structureDefinition, offset, cache, host)
       IN  /\ out' = ResultAfter(r, out)
           /\ cache' = r.cache
    /\ UNCHANGED << host, typesCache, byteArray, structureDefinition, offset,
                    dataToWrite >>
    /\ UNCHANGED << stringOrByteArray, workerVars, supportVars >>

NextRecord ==
    \/ Write
    \/ ParseWritten

SpecRecord == InitRecord /\ [][NextRecord]_vars

\* ------------------------------------------------------ the scan's machine
\* arrays and patterns over two bytes, so that parts of a pattern recur; a
\* string is given by character codes, one of them above 255
ScanByte(i) == i

ScanBuffers == UNION { [1..n -> { ScanByte(1), ScanByte(2) }] : n \in 0..MaxScanLen }

Patterns ==
    UNION { { [text |-> FALSE, codes |-> c] : c \in [1..n -> { ScanByte(1), ScanByte(2) }] }
            \cup { [text |-> TRUE, codes |-> c] :
                       c \in [1..n -> { ScanByte(1), 256 + ScanByte(2) }] } :
            n \in 0..MaxPattern }

InitScan ==
    /\ host \in BOOLEAN
    /\ cache = "undefined"
    /\ typesCache = "undefined"
    /\ byteArray \in ScanBuffers
    /\ structureDefinition = << >>
    /\ offset \in Offsets
    /\ dataToWrite = EmptyData
    /\ stringOrByteArray \in Patterns
    /\ out = NoResult
    /\ NoWorker
    /\ NoScope

\* scanUntil( byteArray, stringOrByteArray, offset )
ScanUntil ==
    /\ out.status = "none"
    /\ LET r == scanUntil(byteArray, stringOrByteArray, offset)
       IN  out' = [status |-> "returned", infinity |-> r.infinity, index |-> r.index]
    /\ UNCHANGED << host, cache, typesCache, byteArray, structureDefinition, offset,
                    dataToWrite, stringOrByteArray, workerVars, supportVars >>

NextScan == ScanUntil

SpecScan == InitScan /\ [][NextScan]_vars

\* ------------------------------------- one value, read in both byte orders
\* the 16, 24 and 32-bit integer types
MultiByteIntegerTypes ==
    { "SHORT", "INT16", "UINT16", "INT24", "UINT24", "INT32", "UINT32", "LONG", "ULONG" }

\* the bytes of the values: the ends and the middle of 0..255
EndianBytes == { 0, 1, 127, 128, 255 }

OneField(typeDefinition) == << [key |-> KeyNames[1], def |-> typeDefinition] >>

InitEndian ==
    /\ host \in BOOLEAN
    /\ cache = "undefined"
    /\ typesCache = "undefined"
    /\ \E type \in MultiByteIntegerTypes :
          /\ structureDefinition = OneField(<< type, "|LE" >>)
          /\ byteArray \in [1..ByteWidth(type) -> EndianBytes]
    /\ offset = 0
    /\ dataToWrite = EmptyData
    /\ out = NoResult
    /\ stringOrByteArray = NoPattern
    /\ NoWorker
    /\ NoScope

\* parseByteArray of the bytes in reverse order, with |BE in place of |LE
ParseReversed ==
    /\ out.status = "returned"
    /\ ~HasFirst
    /\ \E reversed \in { Reverse(byteArray) },
          definition \in { OneField(<< getDataTypeFromDefinition(structureDefinition[1].def),
                                       "|BE" >>) } :
          \E r \in { parseByteArray(reversed, definition, offset, cache, host) } :
              /\ byteArray' = reversed
              /\ structureDefinition' = definition
              /\ out' = ResultAfter(r, out)
              /\ cache' = r.cache
    /\ UNCHANGED << host, typesCache, offset, dataToWrite, stringOrByteArray, workerVars, supportVars >>

NextEndian ==
    \/ ParseByteArray
    \/ ParseReversed

SpecEndian == InitEndian /\ [][NextEndian]_vars

\* ------------------------------------------- one field, with repeat counts
RepeatCounts == { "1", "2", "3" }

\* a type of every width and kind
RepeatTypes == { "CHAR", "UINT8", "INT16", "UINT24", "INT32", "FLOAT", "INT64", "DOUBLE" }

RepeatDefinitions ==
    UNION { { << type >> }
            \cup { << type, "[", n, "]" >> : n \in RepeatCounts }
            \cup { << type, "|BE", "[", n, "]" >> : n \in RepeatCounts } :
            type \in RepeatTypes }

\* the arrays of the decode machine, and one that holds two 64-bit values
RepeatBuffers == Buffers \cup { [i \in 1..(2 * ByteWidth("INT64")) |-> SampleByte(i - 1)] }

InitRepeat ==
    /\ host \in BOOLEAN
    /\ cache = "undefined"
    /\ typesCache = "undefined"
    /\ byteArray \in RepeatBuffers
    /\ \E typeDefinition \in RepeatDefinitions :
          structureDefinition = OneField(typeDefinition)
    /\ offset \in Offsets
    /\ dataToWrite = EmptyData
    /\ out = NoResult
    /\ stringOrByteArray = NoPattern
    /\ NoWorker
    /\ NoScope

NextRepeat == ParseByteArray

SpecRepeat == InitRepeat /\ [][NextRepeat]_vars

\* ------------------------------------------------- the size of a structure
\* every type, and one that does not exist, alone and with a length and a
\* byte order
SizeDefinitions ==
    UNION { { << type >>, << type, "[", "3", "]", "|BE" >> } :
            type \in TYPE_NAMES \cup { "NONEXISTENT" } }

InitSize ==
    /\ host \in BOOLEAN
    /\ cache = "undefined"
    /\ typesCache = "undefined"
    /\ byteArray = << >>
    /\ structureDefinition \in StructuresOf(SizeDefinitions)
    /\ offset = 0
    /\ dataToWrite = EmptyData
    /\ out = NoResult
    /\ stringOrByteArray = NoPattern
    /\ NoWorker
    /\ NoScope

\* getSizeForStructure( structureDefinition ) of definitions/types.js
GetSizeForStructure ==
    /\ out.status = "none"
    /\ LET r == typesGetSizeForStructure(structureDefinition)
       IN  out' = IF r.thrown
                  THEN [status |-> "thrown", message |-> "Unsupported data type", size |-> 0]
                  ELSE [status |-> "returned", message |-> "", size |-> r.size]
    /\ UNCHANGED << host, cache, typesCache, byteArray, structureDefinition, offset,
                    dataToWrite, stringOrByteArray, workerVars, supportVars >>

NextSize == GetSizeForStructure

SpecSize == InitSize /\ [][NextSize]_vars

\* ------------------------------------------------ the parts of a definition
ByteOrders == { "|LE", "|BE" }

\* every type name alone, with a byte order, with a length, and with both in
\* either order
GrammarDefinitions ==
    UNION { { << type >> }
            \cup { << type, o >> : o \in ByteOrders }
            \cup { << type, "[", n, "]" >> : n \in DigitRuns \ { "0" } }
            \cup { << type, "[", n, "]", o >> : n \in DigitRuns \ { "0" }, o \in ByteOrders }
            \cup { << type, o, "[", n, "]" >> : n \in DigitRuns \ { "0" }, o \in ByteOrders } :
            type \in TYPE_NAMES }

InitGrammar ==
    /\ host \in BOOLEAN
    /\ cache = "undefined"
    /\ typesCache = "undefined"
    /\ byteArray = << >>
    /\ \E typeDefinition \in GrammarDefinitions :
          structureDefinition = OneField(typeDefinition)
    /\ offset = 0
    /\ dataToWrite = EmptyData
    /\ out = NoResult
    /\ stringOrByteArray = NoPattern
    /\ NoWorker
    /\ NoScope

\* getDataTypeFromDefinition, getLengthFromDefinition and
\* isDefinitionForLittleEndian of definitions/types.js on one definition
ParseDefinition ==
    /\ out.status = "none"
    /\ LET typeDefinition == structureDefinition[1].def
           le == isDefinitionForLittleEndian(typeDefinition, typesCache, host)
       IN  /\ out' = [status |-> "returned",
                      type |-> getDataTypeFromDefinition(typeDefinition),
                      length |-> typesGetLengthFromDefinition(typeDefinition),
                      littleEndian |-> le.value]
           /\ typesCache' = le.cache
    /\ UNCHANGED << host, cache, byteArray, structureDefinition, offset, dataToWrite,
                    stringOrByteArray, workerVars, supportVars >>

NextGrammar == ParseDefinition

SpecGrammar == InitGrammar /\ [][NextGrammar]_vars

\* ------------------------------------------------------ the worker's channel
\* The main context holds Uint8Arrays by name. A request is posted to the
\* worker with the array's buffer in the transfer list, which leaves the
\* sender's array detached; the worker answers the same way.
ArrayNames == { "x", "y" }

WorkerBuffers == { b \in Buffers : Len(b) \in { 0, 2, MaxLen } }

\* the requests the main context posts: { cmd, structureDefinition, offset,
\* compareByteArray, data } (the byteArray is added on dispatch)
Requests ==
    { [cmd |-> "parse", structureDefinition |-> OneField(<< "INT16", "|BE" >>),
       offset |-> 0, compareByteArray |-> NoPattern, data |-> EmptyData],
      [cmd |-> "parse", structureDefinition |-> OneField(<< "INT64" >>),
       offset |-> 0, compareByteArray |-> NoPattern, data |-> EmptyData],
      [cmd |-> "parse", structureDefinition |-> OneField(<< "NONEXISTENT" >>),
       offset |-> 0, compareByteArray |-> NoPattern, data |-> EmptyData],
      [cmd |-> "seek", structureDefinition |-> << >>, offset |-> 0,
       compareByteArray |-> [text |-> FALSE, codes |-> << SampleByte(1) >>],
       data |-> EmptyData],
      [cmd |-> "write", structureDefinition |-> OneField(<< "UINT8", "[", "2", "]" >>),
       offset |-> 0, compareByteArray |-> NoPattern,
       data |-> (KeyNames[1] :> << 7, 9 >>)],
      [cmd |-> "write", structureDefinition |-> OneField(<< "DOUBLE" >>),
       offset |-> 0, compareByteArray |-> NoPattern,
       data |-> (KeyNames[1] :> SampleValue("DOUBLE", 1, 0))] }

\* a function without one of its arguments
Without(f, name) == [n \in (DOMAIN f) \ { name } |-> f[n]]

InitWorker ==
    /\ host \in BOOLEAN
    /\ cache = "undefined"
    /\ typesCache = "undefined"
    /\ byteArray = << >>
    /\ structureDefinition = << >>
    /\ offset = 0
    /\ dataToWrite = EmptyData
    /\ stringOrByteArray = NoPattern
    /\ out = NoResult
    /\ owned \in [ArrayNames -> WorkerBuffers]
    /\ inbox = << >>
    /\ held = {}
    /\ outbox = << >>
    /\ NoScope

\* what postMessage( message, [ byteArray.buffer ] ) puts in a queue: the
\* message, and the name of the array whose buffer goes with it
Posted(message, name) == [message |-> message, transfer |-> name]

\* main context: worker.postMessage({ cmd, byteArray, ... }, [ byteArray.buffer ])
Dispatch ==
    \E name \in DOMAIN owned, request \in Requests :
        /\ inbox' = Append(inbox,
                           Posted(request @@ [byteArray |-> [name |-> name,
                                                             bytes |-> owned[name]]],
                                  name))
        /\ owned' = Without(owned, name)
        /\ UNCHANGED << callVars, stringOrByteArray, held, outbox, supportVars >>

\* { ...parse( byteArray, structureDefinition, offset ), byteArray }
ParseResponse(result, array) ==
    [data |-> result.data, end |-> result.end, error |-> result.error, byteArray |-> array]

\* { offset: seek( byteArray, compareByteArray, offset ), byteArray }
SeekResponse(result, array) ==
    [offset |-> result, byteArray |-> array]

\* a mutation: the result of write without its byteArray
WriteResponseWithoutArray(result, array) ==
    [end |-> result.end, error |-> result.error]

\* { ...write( byteArray, structureDefinition, data, offset ) }: the out of
\* write, whose byteArray is the array written
WriteResponse(result, array) ==
    [byteArray |-> [name |-> array.name, bytes |-> result.byteArray],
     end |-> result.end, error |-> result.error]

\* what a command of the worker comes to: whether it throws, the response it
\* posts, and the module state it leaves
ParseCommand(p, array, typesState) ==
    [thrown |-> p.status = "thrown", response |-> ParseResponse(p, array),
     cache |-> p.cache, typesCache |-> typesState]

SeekCommand(f, array, state, typesState) ==
    [thrown |-> FALSE, response |-> SeekResponse(f, array),
     cache |-> state, typesCache |-> typesState]

WriteCommand(w, array, state) ==
    [thrown |-> w.status = "thrown", response |-> WriteResponse(w, array),
     cache |-> state, typesCache |-> w.cache]

\* the switch over data.cmd
Command(data, state, typesState, hostOrder) ==
    CASE data.cmd = "parse" ->
            ParseCommand(parseByteArray(data.byteArray.bytes, data.structureDefinition,
                                        data.offset, state, hostOrder),
                         data.byteArray, typesState)
      [] data.cmd = "seek" ->
            SeekCommand(scanUntil(data.byteArray.bytes, data.compareByteArray, data.offset),
                        data.byteArray, state, typesState)
      [] data.cmd = "write" ->
            WriteCommand(write(data.byteArray.bytes, data.structureDefinition, data.data,
                               data.offset, typesState, hostOrder),
                         data.byteArray, state)

\* the message is taken from the queue; a command that throws posts nothing,
\* and the array stays with the worker
Handle(name, command) ==
    /\ inbox' = Tail(inbox)
    /\ cache' = command.cache
    /\ typesCache' = command.typesCache
    /\ IF command.thrown
       THEN /\ held' = held \cup { name }
            /\ outbox' = outbox
       ELSE /\ held' = held
            /\ outbox' = Append(outbox, Posted(command.response, name))

\* worker: handleMessage({ data })
HandleMessage ==
    /\ inbox # << >>
    /\ \E command \in { Command(Head(inbox).message, cache, typesCache, host) } :
          Handle(Head(inbox).transfer, command)
    /\ UNCHANGED << host, byteArray, structureDefinition, offset, dataToWrite, out,
                    stringOrByteArray, owned, supportVars >>

\* main context: the handler of the worker's message takes the result and,
\* when the message holds a byteArray, has that array again
Deliver ==
    /\ outbox # << >>
    /\ LET message == Head(outbox).message
       IN  /\ out' = [status |-> "returned", result |-> Without(message, "byteArray")]
           /\ owned' = IF "byteArray" \in DOMAIN message
                       THEN owned @@ (message.byteArray.name :> message.byteArray.bytes)
                       ELSE owned
    /\ outbox' = Tail(outbox)
    /\ UNCHANGED << host, cache, typesCache, byteArray, structureDefinition, offset,
                    dataToWrite, stringOrByteArray, inbox, held, supportVars >>

NextWorker ==
    \/ Dispatch
    \/ HandleMessage
    \/ Deliver

SpecWorker == InitWorker /\ [][NextWorker]_vars

\* ------------------------------------------------------- isSupported
\* the properties isSupported asks the scope for
RequiredFunctions == { "FileReader", "atob", "Uint8Array", "DataView" }

ScopeNames == RequiredFunctions \cup { "BigInt" }

\* typeof scope[ fn ]: "undefined" for a property the scope does not have
typeof(object, fn) == IF fn \in DOMAIN object THEN object[fn] ELSE "undefined"

\* a mutation: the check for BigInt is left out
isSupportedWithoutBigInt(use64, object) ==
    \A fn \in RequiredFunctions : typeof(object, fn) = "function"

\* isSupported( use64bit, scope )
isSupported(use64, object) ==
    IF use64 /\ typeof(object, "BigInt") # "function"
    THEN FALSE
    ELSE \A fn \in RequiredFunctions : typeof(object, fn) = "function"

\* scopes as the tests hand them in: some of the properties, each a function
\* or an object
Scopes ==
    UNION { [names -> { "function", "object" }] : names \in SUBSET ScopeNames }

InitSupport ==
    /\ host \in BOOLEAN
    /\ cache = "undefined"
    /\ typesCache = "undefined"
    /\ byteArray = << >>
    /\ structureDefinition = << >>
    /\ offset = 0
    /\ dataToWrite = EmptyData
    /\ stringOrByteArray = NoPattern
    /\ out = NoResult
    /\ NoWorker
    /\ use64bit \in BOOLEAN
    /\ scope \in Scopes

IsSupported ==
    /\ out' = [status |-> "returned", supported |-> isSupported(use64bit, scope)]
    /\ UNCHANGED << host, cache, typesCache, byteArray, structureDefinition, offset,
                    dataToWrite, stringOrByteArray, workerVars, supportVars >>

NextSupport == IsSupported

SpecSupport == InitSupport /\ [][NextSupport]_vars

\* ------------------------- one 64-bit value, read in both byte orders
\* the 64-bit integer types
SixtyFourBitIntegerTypes == { "INT64", "UINT64", "LONGLONG", "ULONGLONG" }

\* the bytes of the 64-bit values
EndianBytes64 == { 0, 1 }

\* the byte order the definition does not name
OtherOrder(typeDefinition) == IF includes(typeDefinition, "|LE") THEN "|BE" ELSE "|LE"

HasSecond == HasFirst /\ "first" \in DOMAIN out.first

InitEndian64 ==
    /\ host \in BOOLEAN
    /\ cache = "undefined"
    /\ typesCache = "undefined"
    /\ \E type \in SixtyFourBitIntegerTypes :
          structureDefinition = OneField(<< type, "|LE" >>)
    /\ byteArray \in [1..8 -> EndianBytes64]
    /\ offset = 0
    /\ dataToWrite = EmptyData
    /\ out = NoResult
    /\ stringOrByteArray = NoPattern
    /\ NoWorker
    /\ NoScope

\* parseByteArray of the same bytes, with the other byte order in the definition
ParseOtherOrder ==
    /\ out.status = "returned"
    /\ HasFirst
    /\ ~HasSecond
    /\ \E definition \in { OneField(<< getDataTypeFromDefinition(structureDefinition[1].def),
                                       OtherOrder(structureDefinition[1].def) >>) } :
          \E r \in { parseByteArray(byteArray, definition, offset, cache, host) } :
              /\ structureDefinition' = definition
              /\ out' = ResultAfter(r, out)
              /\ cache' = r.cache
    /\ UNCHANGED << host, typesCache, byteArray, offset, dataToWrite, stringOrByteArray,
                    workerVars, supportVars >>

NextEndian64 ==
    \/ IsLittleEndian
    \/ ParseByteArray
    \/ ParseReversed
    \/ ParseOtherOrder

SpecEndian64 == InitEndian64 /\ [][NextEndian64]_vars

\* handleMessage has run: the message at the head of the worker's queue is
\* taken. Only HandleMessage takes it, and it can whenever there is one.
Handled == inbox # << >> /\ inbox' = Tail(inbox)

\* the caller's handler has run: the response at the head of its queue is taken
Received == outbox # << >> /\ outbox' = Tail(outbox)

\* the event loop of each context runs the handler of every message queued to
\* it: a posted command is handled, a posted response is delivered. Nothing
\* makes the caller dispatch.
SpecWorkerFair ==
    /\ InitWorker
    /\ [][NextWorker]_vars
    /\ WF_inbox(Handled)
    /\ WF_outbox(Received)

\* ------------------------------- integers outside the range of their type
\* the integer types of 1 to 4 bytes
NarrowIntegerTypes == { "BYTE", "INT8", "UINT8" } \cup MultiByteIntegerTypes

\* one value or two, in the host's byte order or in a named one
TruncateDefinitions ==
    UNION { { << type >>, << type, "|LE" >>, << type, "|BE" >>, << type, "[", "2", "]" >> } :
            type \in NarrowIntegerTypes }

\* integers in and outside the ranges of the types, of either sign
TruncateValues ==
    { 0, 0 - 1, 127, 0 - 129, 256, 40000, 0 - 65537, 16777217, 2147483647, 0 - 2147483647 }

\* the record: the value, and with a length of 2 a second value of the other sign
TruncateRecord(typeDefinition, v) ==
    KeyNames[1] :> (IF typesGetLengthFromDefinition(typeDefinition) = 1
                    THEN v
                    ELSE << v, 0 - v >>)

InitTruncate ==
    /\ host \in BOOLEAN
    /\ cache = "undefined"
    /\ typesCache = "undefined"
    /\ byteArray \in Buffers
    /\ offset \in Offsets
    /\ \E typeDefinition \in TruncateDefinitions, v \in TruncateValues :
          /\ structureDefinition = OneField(typeDefinition)
          /\ dataToWrite = TruncateRecord(typeDefinition, v)
    /\ out = NoResult
    /\ stringOrByteArray = NoPattern
    /\ NoWorker
    /\ NoScope

NextTruncate == Write

SpecTruncate == InitTruncate /\ [][NextTruncate]_vars

\* =================================================================== claims
\* The vocabulary of the claims, over the call recorded in the variables.
Called   == out.status # "none"
Returned == out.status = "returned"
Thrown   == out.status = "thrown"

NumFields == Len(structureDefinition)
FieldKey(k) == structureDefinition[k].key
FieldDef(k) == structureDefinition[k].def
FieldKeys == { FieldKey(k) : k \in 1..NumFields }

AllSupported ==
    \A k \in 1..NumFields : getDataTypeFromDefinition(FieldDef(k)) \in TYPE_NAMES

\* the bytes field k takes: its repeat count times the width of its type
FieldSize(k) ==
    getLengthFromDefinition(FieldDef(k)) * ByteWidth(getDataTypeFromDefinition(FieldDef(k)))

RECURSIVE SumOfSizes(_)
SumOfSizes(k) == IF k = 0 THEN 0 ELSE SumOfSizes(k - 1) + FieldSize(k)

\* sizeOf(definition), and the byte index at which field k starts
StructureSize == SumOfSizes(NumFields)
FieldOffset(k) == offset + SumOfSizes(k - 1)

\* all the bytes of field k lie in the array
FieldFits(k) == FieldOffset(k) + FieldSize(k) <= Len(byteArray)

CacheValues == { "undefined", "true", "false" }

\* out.data holds for field k the value read from the bytes starting at `from`
DecodedFrom(k, from) ==
    /\ FieldKey(k) \in DOMAIN out.data
    /\ \E c \in CacheValues :
          LET r == getDataForType(FieldDef(k), byteArray, from, c, host)
          IN  r.defined /\ out.data[FieldKey(k)] = r.value

\* C1: a decode of supported fields from an offset >= 0 with
\* offset + sizeOf(definition) <= buffer length returns error = false and
\* end = offset + sizeOf(definition), and data holds every field, field k read
\* from the bytes starting at offset + the sizes of the fields before it.
C1_DecodeSequential ==
    (Called /\ AllSupported /\ offset >= 0 /\ offset + StructureSize <= Len(byteArray))
    => /\ Returned
       /\ out.error = FALSE
       /\ out.end = offset + StructureSize
       /\ DOMAIN out.data = FieldKeys
       /\ \A k \in 1..NumFields : DecodedFrom(k, FieldOffset(k))

C1_Witness ==
    /\ Returned /\ AllSupported /\ offset > 0 /\ NumFields >= 2
    /\ offset + StructureSize <= Len(byteArray)
    /\ \E k \in 1..NumFields : FieldSize(k) = 8
    /\ out.end = offset + StructureSize
    /\ DOMAIN out.data = FieldKeys

\* C2: a decode of supported fields from an offset >= 0 against a buffer
\* shorter than offset + sizeOf(definition) returns error = true.
C2_ShortBufferSetsError ==
    ( /\ Returned /\ AllSupported /\ NumFields >= 1 /\ offset >= 0
      /\ Len(byteArray) < offset + StructureSize )
    => out.error = TRUE

\* C3: when decode returns error = true, the fields present in data are a
\* prefix of the declaration order that stops before the first field that
\* could not be read in full, each with the value read at its offset.
C3_PartialDataIsReadPrefix ==
    (Returned /\ out.error /\ offset >= 0)
    => \A k \in 1..NumFields :
          FieldKey(k) \in DOMAIN out.data
          => /\ \A j \in 1..k : FieldKey(j) \in DOMAIN out.data
             /\ FieldFits(k)
             /\ DecodedFrom(k, FieldOffset(k))

\* decode has stopped at field k: the fields before it lie in the array and
\* are in data, field k does not fit and is not in data
StoppedAt(k) ==
    /\ ~FieldFits(k)
    /\ \A j \in 1..(k - 1) : FieldFits(j)
    /\ DOMAIN out.data = { FieldKey(j) : j \in 1..(k - 1) }

\* C4: when decode stops at a field that does not fit in what is left of the
\* buffer, the returned end is the cursor at that field (the byte index right
\* after the last decoded field), not the offset the call started from.
C4_EndIsCursorOfUnreadField ==
    (Returned /\ AllSupported /\ offset >= 0)
    => \A k \in 1..NumFields : StoppedAt(k) => out.end = FieldOffset(k)

\* C5: a decode of supported fields (64-bit ones included) returns a result,
\* whatever the buffer and the offset: it never throws.
C5_DecodeNeverThrowsOnData ==
    (Called /\ AllSupported) => Returned

\* C6: a decode that reaches a field of an unsupported type, the fields before
\* it decoded, throws 'Unsupported data type' instead of returning a result.
C6_UnsupportedTypeThrows ==
    (Called /\ offset >= 0)
    => \A k \in 1..NumFields :
          ( /\ getDataTypeFromDefinition(FieldDef(k)) \notin TYPE_NAMES
            /\ \A j \in 1..(k - 1) :
                  getDataTypeFromDefinition(FieldDef(j)) \in TYPE_NAMES /\ FieldFits(j) )
          => (Thrown /\ out.message = "Unsupported data type")

\* C7: a result of decode with error = false has end = offset +
\* sizeOf(definition); ending anywhere else is reported with error = true.
C7_NoErrorMeansComplete ==
    (Returned /\ out.error = FALSE)
    => (AllSupported /\ out.end = offset + StructureSize)

C7_Witness ==
    /\ Returned /\ out.error = FALSE /\ offset > 0 /\ NumFields >= 2
    /\ out.end = offset + StructureSize

\* ------------------------------------------------------ claims on write
\* the writer reads lengths and sizes through definitions/types.js
WFieldLength(k) == typesGetLengthFromDefinition(FieldDef(k))
WFieldWidth(k) == ByteWidth(getDataTypeFromDefinition(FieldDef(k)))
WFieldSize(k) == WFieldLength(k) * WFieldWidth(k)

RECURSIVE WSumOfSizes(_)
WSumOfSizes(k) == IF k = 0 THEN 0 ELSE WSumOfSizes(k - 1) + WFieldSize(k)

WStructureSize == WSumOfSizes(NumFields)
WFieldOffset(k) == offset + WSumOfSizes(k - 1)

\* the byte order of field k: the modifier of its definition, else the host's
FieldLittleEndian(k) ==
    IF includes(FieldDef(k), "|BE")
    THEN FALSE
    ELSE IF includes(FieldDef(k), "|LE") THEN TRUE ELSE host

\* the array holds the bytes of value n (from 0) of field k at
\* WFieldOffset(k) + n * width, in the field's byte order
FieldWrittenAt(k) ==
    \A n \in 0..(WFieldLength(k) - 1) :
        LET type  == getDataTypeFromDefinition(FieldDef(k))
            bytes == ValueBytes(type,
                                ValueToWrite(type, dataToWrite[FieldKey(k)],
                                             WFieldLength(k), n),
                                FieldLittleEndian(k))
        IN  \A b \in 1..WFieldWidth(k) :
                byteArray[WFieldOffset(k) + n * WFieldWidth(k) + b] = bytes[b]

\* C8: an encode of supported fields, a value given for each, from an offset
\* >= 0 with offset + sizeOf(definition) <= buffer length writes the bytes of
\* field k at offset + the sizes of the fields before it and returns
\* error = false, end = offset + sizeOf(definition) and the same buffer (its
\* length and its bytes outside the structure as they were).
C8_EncodeSequential ==
    (Called /\ AllSupported /\ offset >= 0 /\ offset + WStructureSize <= Len(byteArray))
    => /\ Returned
       /\ out.error = FALSE
       /\ out.end = offset + WStructureSize
       /\ \A k \in 1..NumFields : FieldWrittenAt(k)
       /\ \A j \in 1..Len(byteArray) :
             (j <= offset \/ j > offset + WStructureSize) => byteArray[j] = SampleByte(j - 1)

C8_Witness ==
    /\ Returned /\ AllSupported /\ offset > 0 /\ NumFields >= 2
    /\ offset + WStructureSize <= Len(byteArray)
    /\ \E k \in 1..NumFields : WFieldLength(k) > 1 /\ WFieldWidth(k) > 1
    /\ out.end = offset + WStructureSize
    /\ \A k \in 1..NumFields : FieldWrittenAt(k)

\* C9: an encode of supported fields from an offset >= 0 into a buffer shorter
\* than offset + sizeOf(definition) returns a result with error = true and
\* never throws.
C9_ShortBufferEncodeSetsError ==
    ( /\ Called /\ AllSupported /\ NumFields >= 1 /\ offset >= 0
      /\ Len(byteArray) < offset + WStructureSize )
    => (Returned /\ out.error = TRUE)

\* C10: in every result of encode, end # offset + sizeOf(definition) implies
\* error = true.
C10_EncodeIncompleteMeansError ==
    (Returned /\ out.end # offset + WStructureSize) => out.error = TRUE

C10_Witness ==
    /\ Returned /\ NumFields >= 2 /\ offset > 0
    /\ out.end # offset + WStructureSize
    /\ out.error = TRUE

\* ------------------------------------------------------ claims on round trips
\* C11: for a definition over the character and the 8/16/24/32-bit integer
\* types and a buffer that holds the whole structure at the offset, encoding
\* the record decode returned, into a buffer at the same offset, gives back the
\* bytes of the buffer from offset up to offset + sizeOf(definition).
C11_BytesRoundTrip ==
    (HasFirst /\ offset + StructureSize <= Len(byteArray))
    => /\ Returned
       /\ out.error = FALSE
       /\ \A j \in (offset + 1)..(offset + StructureSize) :
             out.byteArray[j] = byteArray[j]

C11_Witness ==
    /\ HasFirst /\ Returned /\ offset > 0 /\ NumFields >= 2
    /\ offset + StructureSize <= Len(byteArray)
    /\ \E k \in 1..NumFields :
          /\ ByteWidth(getDataTypeFromDefinition(FieldDef(k))) = 4
          /\ getLengthFromDefinition(FieldDef(k)) = 2
          /\ out.first.data[FieldKey(k)][1] < 0
    /\ \A j \in (offset + 1)..(offset + StructureSize) : out.byteArray[j] = byteArray[j]

\* C12: for a definition over the character and the 8/16/24/32-bit integer
\* types and a record whose integers lie in the range of their types (negative
\* ones for the signed types among them), decoding from 0 the buffer that
\* encode has written the record into from 0 gives data equal to the record.
C12_RecordRoundTrip ==
    (HasFirst /\ WStructureSize <= Len(byteArray))
    => (Returned /\ out.data = dataToWrite)

\* ------------------------------------------------------- claims on scanning
\* the whole pattern lies in the array from index i on
OccursAt(i) ==
    LET bytes == PatternBytes(stringOrByteArray)
    IN  /\ i >= 0
        /\ i + Len(bytes) <= Len(byteArray)
        /\ \A j \in 1..Len(bytes) : byteArray[i + j] = bytes[j]

Occurrences == { i \in offset..Len(byteArray) : OccursAt(i) }

PatternLength == Len(stringOrByteArray.codes)

\* C13: for a non-empty pattern and an offset >= 0, when the whole pattern
\* occurs in the buffer at an index >= offset, search returns the smallest
\* such index.
C13_ScanFindsFirst ==
    (Called /\ PatternLength > 0 /\ offset >= 0 /\ Occurrences # {})
    => /\ out.infinity = FALSE
       /\ out.index \in Occurrences
       /\ \A i \in Occurrences : out.index <= i

C13_Witness ==
    /\ Called /\ PatternLength > 1 /\ offset > 0
    /\ Cardinality(Occurrences) >= 2
    /\ OccursAt(0)
    /\ out.infinity = FALSE
    /\ out.index \in Occurrences
    /\ \A i \in Occurrences : out.index <= i

\* C14: search returns Infinity when the whole pattern occurs at no index >=
\* offset inside the buffer, also when only a leading part of the pattern
\* matches the last bytes of the buffer.
C14_ScanNotFound ==
    (Called /\ PatternLength > 0 /\ offset >= 0 /\ Occurrences = {})
    => out.infinity = TRUE

\* ------------------------------------------------------ claims on byte order
\* C15: for a 16, 24 or 32-bit integer type and bytes B of the type's width,
\* decoding B with |LE gives the value that decoding B reversed gives with |BE.
C15_EndiannessLaw ==
    HasFirst
    => /\ Returned
       /\ out.first.status = "returned"
       /\ out.first.error = FALSE
       /\ out.error = FALSE
       /\ out.data = out.first.data

C15_Witness ==
    /\ HasFirst /\ Returned
    /\ byteArray # Reverse(byteArray)
    /\ ByteWidth(getDataTypeFromDefinition(FieldDef(1))) = 3
    /\ includes(FieldDef(1), "|BE")
    /\ out.data = out.first.data
    /\ out.data[FieldKey(1)] = byteArray[1] * 65536 + byteArray[2] * 256 + byteArray[3]

\* ------------------------------------------------- claims on repeat counts
\* the definition without its repeat count
ScalarDefinition(typeDefinition) ==
    SelectSeq(typeDefinition, LAMBDA piece : piece \notin ({ "[", "]" } \cup DigitRuns))

\* the one value of the field's type read from the bytes starting at `from`
ScalarAt(k, from) ==
    getDataForType(ScalarDefinition(FieldDef(k)), byteArray, from, cache, host).value

\* C16: a decoded field with repeat count N > 1 is a sequence of exactly N
\* values, value n read from the n-th group of width bytes of the field; with
\* repeat count 1, given or left out, it is the one value itself; a character
\* field is one text whose N character codes are the field's N bytes.
C16_RepeatCount ==
    (Returned /\ offset >= 0 /\ NumFields = 1 /\ FieldFits(1))
    => LET type  == getDataTypeFromDefinition(FieldDef(1))
           N     == getLengthFromDefinition(FieldDef(1))
           width == ByteWidth(type)
           value == out.data[FieldKey(1)]
       IN  /\ FieldKey(1) \in DOMAIN out.data
           /\ IF type = "CHAR"
              THEN value = [str |-> SubSeq(byteArray, offset + 1, offset + N)]
              ELSE IF N > 1
                   THEN /\ DOMAIN value = 1..N
                        /\ \A n \in 1..N :
                              value[n] = ScalarAt(1, offset + (n - 1) * width)
                   ELSE value = ScalarAt(1, offset)

C16_Witness ==
    /\ Returned /\ offset > 0 /\ NumFields = 1 /\ FieldFits(1)
    /\ getLengthFromDefinition(FieldDef(1)) = 3
    /\ ByteWidth(getDataTypeFromDefinition(FieldDef(1))) = 3
    /\ DOMAIN out.data[FieldKey(1)] = 1..3
    /\ out.data[FieldKey(1)][3] = ScalarAt(1, offset + 6)
    /\ out.data[FieldKey(1)][3] # out.data[FieldKey(1)][2]

\* ------------------------------------------- claims on sizes and descriptors
\* the tag of a descriptor, and the N of its [N] part, 1 when it has none
DescriptorTag(typeDefinition) == typeDefinition[1]

DescriptorCount(typeDefinition) ==
    IF \E i \in 1..Len(typeDefinition) : typeDefinition[i] = "["
    THEN parseInt(typeDefinition[1 + CHOOSE i \in 1..Len(typeDefinition) :
                                        typeDefinition[i] = "["])
    ELSE 1

\* the byte widths of the supported tags
WidthOfTag(tag) ==
    CASE tag \in { "CHAR", "BYTE", "INT8", "UINT8" } -> 1
      [] tag \in { "SHORT", "INT16", "UINT16" } -> 2
      [] tag \in { "INT24", "UINT24" } -> 3
      [] tag \in { "INT32", "UINT32", "LONG", "ULONG", "FLOAT", "FLOAT32" } -> 4
      [] tag \in { "INT64", "UINT64", "LONGLONG", "ULONGLONG", "DOUBLE", "FLOAT64" } -> 8

SupportedTags ==
    { "CHAR", "BYTE", "INT8", "UINT8", "SHORT", "INT16", "UINT16", "INT24", "UINT24",
      "INT32", "UINT32", "LONG", "ULONG", "FLOAT", "FLOAT32",
      "INT64", "UINT64", "LONGLONG", "ULONGLONG", "DOUBLE", "FLOAT64" }

RECURSIVE SumOfWidths(_)
SumOfWidths(k) ==
    IF k = 0
    THEN 0
    ELSE SumOfWidths(k - 1) + WidthOfTag(DescriptorTag(FieldDef(k))) * DescriptorCount(FieldDef(k))

\* C17: sizeOf of a definition whose tags are all supported is the sum over
\* the fields of the tag's byte width (1, 2, 3, 4 or 8) times the repeat count;
\* with a tag that is not supported it fails with 'Unsupported data type'.
C17_StructureSize ==
    Called
    => IF \A k \in 1..NumFields : DescriptorTag(FieldDef(k)) \in SupportedTags
       THEN Returned /\ out.size = SumOfWidths(NumFields)
       ELSE Thrown /\ out.message = "Unsupported data type"

C17_Witness ==
    /\ Returned /\ NumFields >= 2
    /\ DescriptorTag(FieldDef(1)) \in { "INT24", "UINT24" }
    /\ DescriptorCount(FieldDef(1)) = 3
    /\ DescriptorTag(FieldDef(2)) \in { "DOUBLE", "FLOAT64" }
    /\ out.size = 17

\* the byte order a descriptor names
DescriptorNames(typeDefinition, order) ==
    \E i \in 1..Len(typeDefinition) : typeDefinition[i] = order

\* C18: T[N]|O and T|O[N] both parse to tag T, count N and little endian
\* exactly when O is LE; a descriptor without [N] parses to count 1.
C18_GrammarOrderInsensitive ==
    Called
    => /\ out.type = DescriptorTag(FieldDef(1))
       /\ out.type \in SupportedTags
       /\ out.length = DescriptorCount(FieldDef(1))
       /\ DescriptorNames(FieldDef(1), "|LE") => out.littleEndian = TRUE
       /\ DescriptorNames(FieldDef(1), "|BE") => out.littleEndian = FALSE

C18_Witness ==
    /\ Called
    /\ FieldDef(1) = << "INT16", "[", "7", "]", "|LE" >>
    /\ host = FALSE
    /\ out.type = "INT16" /\ out.length = 7 /\ out.littleEndian = TRUE

\* ------------------------------------------------ claims on the worker
\* the places that hold the array called name: the main context, a request
\* not yet handled, the worker, a response not yet delivered
Owners(name) ==
    (IF name \in DOMAIN owned THEN { "caller" } ELSE {})
    \cup { << "request", i >> : i \in { j \in 1..Len(inbox) : inbox[j].transfer = name } }
    \cup (IF name \in held THEN { "worker" } ELSE {})
    \cup { << "response", i >> : i \in { j \in 1..Len(outbox) : outbox[j].transfer = name } }

\* a response holds the byteArray whose buffer goes with it
CarriesArray(posted) ==
    /\ "byteArray" \in DOMAIN posted.message
    /\ posted.message.byteArray.name = posted.transfer

\* the step gives the main context an array only from the response delivered
RegainedByResponse ==
    \A name \in ArrayNames :
        (name \notin DOMAIN owned /\ name \in DOMAIN owned')
        => /\ outbox # << >>
           /\ CarriesArray(Head(outbox))
           /\ Head(outbox).transfer = name
           /\ outbox' = Tail(outbox)

\* C19: in every interleaving of dispatch, handling and delivery an array has
\* at most one owner (the caller, a message in flight or the worker), every
\* response (of parse, seek and write) holds the byteArray, and the caller has
\* an array again only by the delivery of the response that holds it.
C19_ExclusiveOwnership ==
    /\ [](\A name \in ArrayNames : Cardinality(Owners(name)) <= 1)
    /\ [](\A i \in 1..Len(outbox) : CarriesArray(outbox[i]))
    /\ [][RegainedByResponse]_vars

C19_Witness ==
    /\ Len(outbox) = 2
    /\ "offset" \in DOMAIN outbox[1].message
    /\ DOMAIN outbox[2].message = { "byteArray", "end", "error" }
    /\ outbox[2].message.byteArray.bytes # << >>
    /\ out.status = "returned"
    /\ owned = << >>

\* --------------------------------------------------- claims on call history
\* C20: whatever decode calls came before, a decode call gives the result the
\* same call gives in a module no call has used yet: the module state earlier
\* calls have written does not change it.
C20_DecodeIndependentOfHistory ==
    Called
    => out = Result(parseByteArray(byteArray, structureDefinition, offset, "undefined", host))

\* ------------------------------------------------------ claims on support
IsFunction(fn) == fn \in DOMAIN scope /\ scope[fn] = "function"

\* C21: isSupported gives true exactly when FileReader, atob, Uint8Array and
\* DataView are all functions of the scope and, when use64bit is true, BigInt
\* is a function of the scope too.
C21_FeatureGate ==
    Returned /\ "supported" \in DOMAIN out
    => (out.supported
        <=> /\ IsFunction("FileReader")
            /\ IsFunction("atob")
            /\ IsFunction("Uint8Array")
            /\ IsFunction("DataView")
            /\ (use64bit => IsFunction("BigInt")))

C21_Witness ==
    /\ Returned
    /\ "supported" \in DOMAIN out
    /\ ~out.supported
    /\ use64bit
    /\ \A fn \in RequiredFunctions : IsFunction(fn)
    /\ "BigInt" \in DOMAIN scope

\* ------------------------------------------- claims on 64-bit byte order
\* C22: for a 64-bit integer type the byte order of the definition decides how
\* the 8 bytes are put together: decoding bytes B with |LE gives the value that
\* decoding B reversed gives with |BE, and decoding the same bytes, when they
\* do not read the same in both directions, with |LE and with |BE gives two
\* different values.
C22_EndiannessLaw64 ==
    /\ (HasFirst /\ ~HasSecond)
       => /\ Returned
          /\ out.first.status = "returned"
          /\ out.data = out.first.data
    /\ (HasSecond /\ byteArray # Reverse(byteArray))
       => /\ Returned
          /\ out.first.status = "returned"
          /\ out.data # out.first.data

\* ------------------------------------------- claims on decoded integers
IntegerTags ==
    { "BYTE", "INT8", "UINT8", "SHORT", "INT16", "UINT16", "INT24", "UINT24",
      "INT32", "UINT32", "LONG", "ULONG" }

\* 256^j for the significance positions of up to four bytes
Weight(j) == CASE j = 0 -> 1 [] j = 1 -> 256 [] j = 2 -> 65536 [] j = 3 -> 16777216

\* the byte of significance position j (0 the least) of the one value of field
\* k, which starts at `from`, under the byte order of the field
SignificantByte(k, from, j) ==
    IF FieldLittleEndian(k)
    THEN byteArray[from + j + 1]
    ELSE byteArray[from + WidthOfTag(DescriptorTag(FieldDef(k))) - j]

\* v is the non-negative integer whose base-256 digits are the bytes of field k
IsUnsignedValueOf(v, k, from) ==
    /\ v \in Int
    /\ v >= 0
    /\ \A j \in 0..(WidthOfTag(DescriptorTag(FieldDef(k))) - 1) :
          (v \div Weight(j)) % 256 = SignificantByte(k, from, j)
    /\ v \div Weight(WidthOfTag(DescriptorTag(FieldDef(k))) - 1) < 256

\* C23: a single value of an integer tag of 1 to 4 bytes decodes to the
\* unsigned value of its bytes, the sum of byte_j * 256^j over the significance
\* positions j of the resolved byte order: never negative, and at least 2^31
\* for four bytes whose top bit is set.
C23_DecodeUnsigned ==
    (/\ Returned
     /\ NumFields = 1
     /\ offset = 0
     /\ DescriptorTag(FieldDef(1)) \in IntegerTags
     /\ DescriptorCount(FieldDef(1)) = 1
     /\ Len(byteArray) >= WidthOfTag(DescriptorTag(FieldDef(1))))
    => /\ ~out.error
       /\ FieldKey(1) \in DOMAIN out.data
       /\ IsUnsignedValueOf(out.data[FieldKey(1)], 1, 0)

\* ------------------------------------------- claims on encode and schema
\* the array holds what it held before the call at every index
Untouched == byteArray = [i \in 1..Len(byteArray) |-> SampleByte(i - 1)]

\* C24: encode with a definition that has an unsupported type, at any field,
\* throws 'Unsupported data type' and leaves every byte of the buffer as it
\* was, whatever the buffer, the record and the offset.
C24_EncodeSchemaErrorBeforeWrite ==
    (Called /\ ~AllSupported)
    => /\ Thrown
       /\ out.message = "Unsupported data type"
       /\ Untouched

C24_Witness ==
    /\ Thrown
    /\ out.message = "Unsupported data type"
    /\ NumFields = 2
    /\ getDataTypeFromDefinition(FieldDef(1)) \in TYPE_NAMES
    /\ getDataTypeFromDefinition(FieldDef(2)) \notin TYPE_NAMES
    /\ offset >= 0
    /\ offset + WFieldSize(1) <= Len(byteArray)
    /\ Untouched

\* ------------------------------------------- claims on the worker's answers
\* a command message with the array `name` waits for the worker
Delivered(name) == \E i \in 1..Len(inbox) : inbox[i].transfer = name

\* C25: every parse, seek or write command delivered to the worker, also one
\* whose structure definition is malformed, is in the end answered by a
\* response that gives the byteArray back to the caller: after no command does
\* the array stay with the worker for ever.
C25_BufferComesBack ==
    \A name \in ArrayNames : Delivered(name) ~> (name \in DOMAIN owned)

\* ------------------------------------------- claims on where encode stops
\* all the bytes of field k lie in the array
WFieldFits(k) == WFieldOffset(k) + WFieldSize(k) <= Len(byteArray)

\* encode has written the fields before field k, which lie in the array, and
\* not field k, of which not even the first byte of its last value does
WStoppedAt(k) ==
    /\ \A j \in 1..(k - 1) : WFieldFits(j)
    /\ WFieldOffset(k) + WFieldLength(k) - 1 >= Len(byteArray)

\* C26: when encode stops at a field that does not fit in the buffer, the
\* returned end is the byte index right after the last field written (the
\* cursor of the field that did not fit), not the offset the call started from.
C26_EncodeEndIsCursor ==
    (Returned /\ AllSupported /\ offset >= 0)
    => \A k \in 1..NumFields : WStoppedAt(k) => out.end = WFieldOffset(k)

\* ------------------------------------------- claims on the positions read
\* the position decode starts from: Math.max( 0, offset )
StartPosition == IF offset > 0 THEN offset ELSE 0

\* the positions the value of field k is made from: those of its bytes, the
\* fields before it taking their sizes from the start position
PositionsOf(k) ==
    (StartPosition + SumOfSizes(k - 1))..(StartPosition + SumOfSizes(k) - 1)

\* C27: every value decode has stored in data is made only from positions i of
\* the buffer with max(0, offset) <= i < buffer length, and the returned end is
\* not above the buffer length. Stated for a call that starts inside the buffer.
C27_DecodeStaysInBuffer ==
    (Returned /\ AllSupported /\ NumFields >= 1 /\ offset <= Len(byteArray))
    => /\ out.end <= Len(byteArray)
       /\ \A k \in 1..NumFields :
             FieldKey(k) \in DOMAIN out.data
             => \A i \in PositionsOf(k) : StartPosition <= i /\ i < Len(byteArray)

\* ------------------------------------------- claims on what encode leaves
\* the bytes of field k that lie in the array are those of its values
FieldWrittenWithin(k) ==
    \A n \in 0..(WFieldLength(k) - 1) :
        LET type  == getDataTypeFromDefinition(FieldDef(k))
            bytes == ValueBytes(type,
                                ValueToWrite(type, dataToWrite[FieldKey(k)],
                                             WFieldLength(k), n),
                                FieldLittleEndian(k))
        IN  \A b \in 1..WFieldWidth(k) :
                WFieldOffset(k) + n * WFieldWidth(k) + b <= Len(byteArray)
                => byteArray[WFieldOffset(k) + n * WFieldWidth(k) + b] = bytes[b]

\* field k is the one encode has stopped at: the first whose last value starts
\* past the end of the array
RefusedAt(k) ==
    /\ WFieldOffset(k) + WFieldLength(k) - 1 >= Len(byteArray)
    /\ \A j \in 1..(k - 1) : WFieldOffset(j) + WFieldLength(j) - 1 < Len(byteArray)

\* C28: after encode from an offset >= 0 has returned, with error or without,
\* every byte of the buffer at an index below offset or at or above offset +
\* sizeOf(definition) holds the value it had before the call; in a result with
\* error = true the bytes of the fields written before the failing field are
\* still written.
C28_EncodeFrame ==
    (Returned /\ offset >= 0)
    => /\ \A j \in 1..Len(byteArray) :
             (j - 1 < offset \/ j - 1 >= offset + WStructureSize)
             => byteArray[j] = SampleByte(j - 1)
       /\ out.error
          => \A k \in 1..NumFields :
                RefusedAt(k) => \A j \in 1..(k - 1) : FieldWrittenWithin(j)

C28_Witness ==
    /\ Returned /\ out.error
    /\ offset > 0
    /\ NumFields = 2
    /\ RefusedAt(2)
    /\ WFieldSize(1) >= 2
    /\ WFieldFits(1)
    /\ FieldWrittenAt(1)
    /\ \E j \in (offset + 1)..(offset + WFieldSize(1)) : byteArray[j] # SampleByte(j - 1)
    /\ \A j \in 1..offset : byteArray[j] = SampleByte(j - 1)

\* ------------------------------------------- claims on complete results
\* C29: a result of decode with error = false holds a value for every field of
\* the definition, for every buffer, every definition of supported fields with
\* repeat counts >= 1 and every offset, the negative ones too.
C29_NoErrorMeansEveryField ==
    (/\ Returned
     /\ out.error = FALSE
     /\ AllSupported
     /\ \A k \in 1..NumFields : getLengthFromDefinition(FieldDef(k)) >= 1)
    => DOMAIN out.data = FieldKeys

\* ------------------------------------------- claims on encoded integers
\* value n (from 0) of field 1
WrittenValue(n) ==
    IF WFieldLength(1) = 1 THEN dataToWrite[FieldKey(1)] ELSE dataToWrite[FieldKey(1)][n + 1]

\* the index (from 1) of the byte of significance position j of value n
IndexOfSignificance(n, j) ==
    offset + n * WFieldWidth(1) + (IF FieldLittleEndian(1) THEN j + 1 ELSE WFieldWidth(1) - j)

\* C30: encoding an integer v with an integer tag of 1 to 4 bytes stores the
\* low-order bytes of v, as many as the tag is wide (v modulo 2^(8 * width),
\* two's complement for a negative v), in the resolved byte order; a v outside
\* the range of the tag changes no byte outside the bytes of its own value.
C30_EncodeTruncates ==
    (/\ Returned
     /\ NumFields = 1
     /\ DescriptorTag(FieldDef(1)) \in IntegerTags
     /\ offset >= 0
     /\ WFieldFits(1))
    => /\ \A n \in 0..(WFieldLength(1) - 1) : \A j \in 0..(WFieldWidth(1) - 1) :
             byteArray[IndexOfSignificance(n, j)] = (WrittenValue(n) \div Weight(j)) % 256
       /\ \A i \in 1..Len(byteArray) :
             (i <= offset \/ i > offset + WFieldSize(1)) => byteArray[i] = SampleByte(i - 1)

C30_Witness ==
    /\ Returned
    /\ NumFields = 1
    /\ DescriptorTag(FieldDef(1)) = "UINT16"
    /\ WFieldLength(1) = 2
    /\ offset = 1
    /\ Len(byteArray) > offset + WFieldSize(1)
    /\ dataToWrite[FieldKey(1)] = << 0 - 65537, 65537 >>
    /\ SubSeq(byteArray, 2, 5) = IF host THEN << 255, 255, 1, 0 >> ELSE << 255, 255, 0, 1 >>
    /\ byteArray[1] = SampleByte(0)
    /\ byteArray[6] = SampleByte(5)

====
